---- MODULE Spec2Model ----
(***************************************************************************)
(* Ordne API: the generic create/list dispatcher over a document store and *)
(* the graph assembler (src/main.py), with the declared record types and   *)
(* their validation (src/schemas.py).                                      *)
(*                                                                         *)
(* A route parameter and a type name are sequences of one-character        *)
(* strings, so that str.lower() and str.capitalize() are computed.  Every  *)
(* other Python string is a TLA+ string.                                   *)
(***************************************************************************)
EXTENDS Integers, Sequences, FiniteSets, TLC

VARIABLES store, nextId, req, resp, calls, created

vars == <<store, nextId, req, resp, calls, created>>

(***************************************************************************)
(* Python strings: lower(), capitalize()                                   *)
(***************************************************************************)
UpperLetters == <<"A","B","C","D","E","F","G","H","I","J","K","L","M",
                  "N","O","P","Q","R","S","T","U","V","W","X","Y","Z">>

LowerLetters == <<"a","b","c","d","e","f","g","h","i","j","k","l","m",
                  "n","o","p","q","r","s","t","u","v","w","x","y","z">>

UpperSet == {UpperLetters[i] : i \in DOMAIN UpperLetters}

LowerSet == {LowerLetters[i] : i \in DOMAIN LowerLetters}

\* the lower-case letter of every upper-case letter
LowerOf == [c \in UpperSet |->
              LowerLetters[CHOOSE i \in DOMAIN UpperLetters : UpperLetters[i] = c]]

\* the upper-case letter of every lower-case letter
UpperOf == [c \in LowerSet |->
              UpperLetters[CHOOSE i \in DOMAIN LowerLetters : LowerLetters[i] = c]]

LowerChar(c) == IF c \in UpperSet THEN LowerOf[c] ELSE c

UpperChar(c) == IF c \in LowerSet THEN UpperOf[c] ELSE c

\* a function over 1..n as a sequence value
Tuple(f) == SubSeq(f, 1, Len(f))

\* F applied to the value of e, which is computed once
With(e, F(_)) == CHOOSE r \in {F(x) : x \in {e}} : TRUE

\* str.lower()
Lower(s) == Tuple([i \in DOMAIN s |-> LowerChar(s[i])])

\* str.upper()
Upper(s) == Tuple([i \in DOMAIN s |-> UpperChar(s[i])])

\* str.capitalize(): first character upper-cased, the rest lower-cased
Capitalize(s) ==
    Tuple([i \in DOMAIN s |-> IF i = 1 THEN UpperChar(s[i]) ELSE LowerChar(s[i])])

\* the character sequence as one string
RECURSIVE Join(_)
Join(s) == IF s = <<>> THEN "" ELSE Head(s) \o Join(Tail(s))

(***************************************************************************)
(* Python values held by payloads and documents                            *)
(***************************************************************************)
StrV(x)  == [t |-> "str",  s |-> x,  n |-> 0, l |-> <<>>]
IntV(k)  == [t |-> "int",  s |-> "", n |-> k, l |-> <<>>]
BoolV(b) == [t |-> "bool", s |-> "", n |-> IF b THEN 1 ELSE 0, l |-> <<>>]
NoneV    == [t |-> "none", s |-> "", n |-> 0, l |-> <<>>]
OidV(k)  == [t |-> "oid",  s |-> "", n |-> k, l |-> <<>>]
DateV(k) == [t |-> "date", s |-> "", n |-> k, l |-> <<>>]
ListV(q) == [t |-> "list", s |-> "", n |-> 0, l |-> q]

\* str(v)
PyStr(v) ==
    CASE v.t = "str"  -> v.s
      [] v.t = "none" -> "None"
      [] v.t = "oid"  -> "oid" \o ToString(v.n)
      [] v.t = "int"  -> ToString(v.n)
      [] v.t = "bool" -> IF v.n = 1 THEN "True" ELSE "False"
      [] v.t = "date" -> "date" \o ToString(v.n)
      [] v.t = "list" -> IF v.l = <<>> THEN "[]" ELSE "[...]"

\* datetime.isoformat()
IsoFormat(v) == StrV("iso" \o ToString(v.n))

\* bool(v)
Truthy(v) ==
    CASE v.t = "str"  -> v.s # ""
      [] v.t = "none" -> FALSE
      [] v.t = "int"  -> v.n # 0
      [] v.t = "bool" -> v.n = 1
      [] v.t = "list" -> v.l # <<>>
      [] OTHER        -> TRUE

\* a or b
PyOr(a, b) == IF Truthy(a) THEN a ELSE b

\* dict.get(k, default)
GetOr(d, k, default) == IF k \in DOMAIN d THEN d[k] ELSE default

\* dict.get(k)
Get(d, k) == GetOr(d, k, NoneV)

EmptyDoc == [k \in {} |-> NoneV]

(***************************************************************************)
(* src/schemas.py: the declared record types                               *)
(***************************************************************************)
Application == <<"A","p","p","l","i","c","a","t","i","o","n">>
Process == <<"P","r","o","c","e","s","s">>
Role == <<"R","o","l","e">>
DataAsset == <<"D","a","t","a","A","s","s","e","t">>
Risk == <<"R","i","s","k">>
ComplianceRequirement == <<"C","o","m","p","l","i","a","n","c","e",
                           "R","e","q","u","i","r","e","m","e","n","t">>
Relationship == <<"R","e","l","a","t","i","o","n","s","h","i","p">>

\* one declared field: its name, its kind, whether it is required, the
\* literals of a Literal[...] and the default of an optional field
Fld(name, kind, required, lits, default) ==
    [name |-> name, kind |-> kind, required |-> required,
     lits |-> lits, default |-> default]

Req(name)          == Fld(name, "str", TRUE, {}, NoneV)
OptStr(name)       == Fld(name, "optstr", FALSE, {}, NoneV)
Lit(name, lits, d) == Fld(name, "lit", FALSE, lits, StrV(d))
StrList(name)      == Fld(name, "strlist", FALSE, {}, ListV(<<>>))

Levels == {"low", "medium", "high"}

GdprBases == {"consent", "contract", "legal_obligation",
              "legitimate_interest", "vital_interest", "public_task"}

ApplicationFields ==
    << Req("name"), OptStr("description"), OptStr("owner"),
       OptStr("technical_owner"), OptStr("vendor"),
       Lit("criticality", Levels, "medium"),
       Lit("lifecycle", {"ideation", "active", "sunset"}, "active"),
       Fld("gdpr_data", "bool", FALSE, {}, BoolV(FALSE)),
       StrList("tags") >>

ProcessFields ==
    << Req("name"), OptStr("description"), OptStr("owner"),
       Fld("level", "optlit", FALSE, {"L1", "L2", "L3"}, StrV("L2")),
       StrList("related_applications") >>

RoleFields ==
    << Req("name"), Fld("email", "optemail", FALSE, {}, NoneV),
       OptStr("department"), StrList("responsibilities") >>

DataAssetFields ==
    << Req("name"),
       Lit("category", {"PII", "Financial", "Operational", "Other"}, "Other"),
       OptStr("description"),
       Fld("retention_period_months", "optint_ge0", FALSE, {}, NoneV),
       Fld("gdpr_basis", "optlit", FALSE, GdprBases, NoneV) >>

RiskFields ==
    << Req("title"), OptStr("description"),
       Lit("likelihood", Levels, "low"), Lit("impact", Levels, "low"),
       OptStr("owner"), StrList("related_assets") >>

ComplianceRequirementFields ==
    << Lit("framework", {"GDPR", "ISO27001", "SOC2", "Other"}, "GDPR"),
       OptStr("control_id"), Req("title"), OptStr("description"),
       Fld("applicable", "bool", FALSE, {}, BoolV(TRUE)) >>

RelationshipFields ==
    << Req("source_id"), Req("source_type"), Req("target_id"),
       Req("target_type"), Req("kind"), OptStr("description") >>

\* list_models(): the BaseModel subclasses of the module, in the order of
\* inspect.getmembers (sorted by name)
list_models ==
    << [name |-> Application, fields |-> ApplicationFields],
       [name |-> ComplianceRequirement, fields |-> ComplianceRequirementFields],
       [name |-> DataAsset, fields |-> DataAssetFields],
       [name |-> Process, fields |-> ProcessFields],
       [name |-> Relationship, fields |-> RelationshipFields],
       [name |-> Risk, fields |-> RiskFields],
       [name |-> Role, fields |-> RoleFields] >>

TypeNames == {list_models[i].name : i \in DOMAIN list_models}

FieldNames(model) == {model.fields[i].name : i \in DOMAIN model.fields}

FieldOf(model, k) ==
    model.fields[CHOOSE i \in DOMAIN model.fields : model.fields[i].name = k]

\* strings the e-mail validator accepts as syntactically valid addresses
ValidEmails == {"ann@example.com"}

\* FieldAccepts with the ge=0 of retention_period_months left out
FieldAcceptsNoRange(f, v) ==
    CASE f.kind = "str"        -> v.t = "str"
      [] f.kind = "optstr"     -> v.t \in {"str", "none"}
      [] f.kind = "lit"        -> v.t = "str" /\ v.s \in f.lits
      [] f.kind = "optlit"     -> v.t = "none" \/ (v.t = "str" /\ v.s \in f.lits)
      [] f.kind = "bool"       -> v.t = "bool" \/ (v.t = "int" /\ v.n \in {0, 1})
      [] f.kind = "strlist"    -> v.t = "list"
      [] f.kind = "optint_ge0" -> v.t \in {"none", "int"}
      [] f.kind = "optemail"   -> v.t = "none" \/ (v.t = "str" /\ v.s \in ValidEmails)

\* whether value v is accepted for a field
FieldAccepts(f, v) ==
    CASE f.kind = "str"        -> v.t = "str"
      [] f.kind = "optstr"     -> v.t \in {"str", "none"}
      [] f.kind = "lit"        -> v.t = "str" /\ v.s \in f.lits
      [] f.kind = "optlit"     -> v.t = "none" \/ (v.t = "str" /\ v.s \in f.lits)
      [] f.kind = "bool"       -> v.t = "bool" \/ (v.t = "int" /\ v.n \in {0, 1})
      [] f.kind = "strlist"    -> v.t = "list"
      [] f.kind = "optint_ge0" -> v.t = "none" \/ (v.t = "int" /\ v.n >= 0)
      [] f.kind = "optemail"   -> v.t = "none" \/ (v.t = "str" /\ v.s \in ValidEmails)

\* the value the validated model holds for an accepted input
Coerce(f, v) ==
    IF f.kind = "bool" /\ v.t = "int" THEN BoolV(v.n = 1) ELSE v

\* model_cls(**data) raises
Invalid(model, data) ==
    \E i \in DOMAIN model.fields :
        LET f == model.fields[i] IN
        IF f.name \in DOMAIN data THEN ~FieldAccepts(f, data[f.name])
                                  ELSE f.required

\* model_cls(**data): the declared fields, each with the coerced input or
\* its default; keys of data the type does not declare are ignored
Validated(model, data) ==
    [k \in FieldNames(model) |->
        LET f == FieldOf(model, k) IN
        IF k \in DOMAIN data THEN Coerce(f, data[k]) ELSE f.default]

(***************************************************************************)
(* The document store behind database.py (create_document, get_documents)  *)
(***************************************************************************)
\* insert(collectionName, record): the record is appended to the collection
\* under the identifier the store assigns
create_document(st, name, record, id) ==
    [st EXCEPT ![name] = Append(@, record @@ ("_id" :> OidV(id)))]

\* find(collectionName, limit): the first `limit` records, in store order
get_documents(st, name, limit) ==
    SubSeq(st[name], 1, IF limit < Len(st[name]) THEN limit ELSE Len(st[name]))

\* one call of the store adapter, as the handler made it
Call(fn, name, ok) == [fn |-> fn, coll |-> name, ok |-> ok]

(***************************************************************************)
(* src/main.py: responses                                                  *)
(***************************************************************************)
NoBody == [id |-> "", items |-> <<>>, nodes |-> <<>>, edges |-> <<>>,
           info |-> <<>>]

Response(status, body) == [status |-> status] @@ body

\* raise HTTPException(status_code=404, ...)
NotFound == Response(404, NoBody)

\* raise HTTPException(status_code=422, ...)
Unprocessable == Response(422, NoBody)

\* an exception no handler catches: the framework answers 500
ServerError == Response(500, NoBody)

\* what a handler did: its response, the store after it, the store calls made
Outcome(r, st, cs) == [resp |-> r, store |-> st, calls |-> cs]

(***************************************************************************)
(* src/main.py: generic create and list                                    *)
(***************************************************************************)
NoModel == [name |-> <<>>, fields |-> <<>>]

\* name.lower() for every model of list_models
LoweredNames == Tuple([i \in DOMAIN list_models |-> Lower(list_models[i].name)])

\* NameMatches as name.lower().startswith(collection.lower())
NameMatchesPrefix(loweredName, loweredCollection) ==
    /\ Len(loweredCollection) <= Len(loweredName)
    /\ SubSeq(loweredName, 1, Len(loweredCollection)) = loweredCollection

\* name.lower() == collection.lower(), on the two lower-cased strings
NameMatches(loweredName, loweredCollection) == loweredName = loweredCollection

\* the first model, in the order of list_models, whose name matches
model_for_collection(collection) ==
    With(Lower(collection), LAMBDA lowered :
      With({i \in DOMAIN list_models : NameMatches(LoweredNames[i], lowered)},
           LAMBDA hits :
             IF hits = {} THEN NoModel
             ELSE list_models[CHOOSE i \in hits : \A j \in hits : i <= j]))

\* CollectionOf with the route parameter passed on as given
CollectionOfRaw(collection) == Join(collection)

\* collection.lower(): the store collection a request is served from
CollectionOf(collection) == Join(Lower(collection))

\* serialize(doc) of get_collection_documents
serialize(doc) ==
    [k \in DOMAIN doc |->
        IF k = "_id" THEN StrV(PyStr(doc[k]))
        ELSE IF doc[k].t = "date" THEN IsoFormat(doc[k])
        ELSE doc[k]]

\* get_documents raised inside get_collection_documents: nothing catches it
ListFindFailed == ServerError

get_collection_documents(st, collection, limit, ok) ==
    With(model_for_collection(collection), LAMBDA model :
      IF model = NoModel
      THEN Outcome(NotFound, st, <<>>)
      ELSE With(CollectionOf(collection), LAMBDA name :
        IF ~ok
        THEN Outcome(ListFindFailed, st, <<Call("find", name, FALSE)>>)
        ELSE With(get_documents(st, name, limit), LAMBDA docs :
          Outcome(
            Response(200, [NoBody EXCEPT
                !.items = Tuple([i \in DOMAIN docs |-> serialize(docs[i])])]),
            st, <<Call("find", name, TRUE)>>))))

\* InsertFailed with the exception swallowed and an identifier returned
InsertFailedSilently(id) == Response(200, [NoBody EXCEPT !.id = PyStr(OidV(id))])

\* create_document raised inside create_collection_document: nothing
\* catches it
InsertFailed(id) == ServerError

\* RecordToInsert handing payload.data to the store instead of validated
RecordToInsertRaw(model_cls, data) == data

\* validated = model_cls(**payload.data): what is handed to the store
RecordToInsert(model_cls, data) == Validated(model_cls, data)

\* Inserted with the collection replaced by the new record
InsertedReplacing(st, name, record, id) ==
    [st EXCEPT ![name] = <<record @@ ("_id" :> OidV(id))>>]

\* the store after the insert of a validated record
Inserted(st, name, record, id) == create_document(st, name, record, id)

create_collection_document(st, id, collection, data, ok) ==
    With(model_for_collection(collection), LAMBDA model_cls :
      IF model_cls = NoModel
      THEN Outcome(NotFound, st, <<>>)
      ELSE IF Invalid(model_cls, data)
      THEN Outcome(Unprocessable, st, <<>>)
      ELSE With(CollectionOf(collection), LAMBDA name :
        IF ~ok
        THEN Outcome(InsertFailed(id), st, <<Call("insert", name, FALSE)>>)
        ELSE With(RecordToInsert(model_cls, data), LAMBDA validated :
          Outcome(
            Response(200, [NoBody EXCEPT !.id = PyStr(OidV(id))]),
            Inserted(st, name, validated, id),
            <<Call("insert", name, TRUE)>>))))

(***************************************************************************)
(* src/main.py: the graph endpoint                                         *)
(***************************************************************************)
NodeLimit == 100

EdgeLimit == 500

\* core = ["application", "process", "role", "dataasset", "risk"]
core == << Lower(Application), Lower(Process), Lower(Role),
           Lower(DataAsset), Lower(Risk) >>

relationship == Lower(Relationship)

\* the names of core and of the relationship collection as strings
CoreName == Tuple([k \in DOMAIN core |-> Join(core[k])])

RelationshipName == Join(relationship)

\* the six collections get_graph reads
GraphCollections == {CoreName[k] : k \in DOMAIN core} \cup {RelationshipName}

\* Label with the "title" alternative left out
LabelNameOnly(d, c) == PyOr(Get(d, "name"), StrV(Join(Capitalize(c))))

\* label = d.get("name") or d.get("title") or c.capitalize()
Label(d, c) ==
    PyOr(Get(d, "name"), PyOr(Get(d, "title"), StrV(Join(Capitalize(c)))))

\* the node of record d of collection core[k]
Node(d, k) ==
    [id |-> PyStr(Get(d, "_id")), type |-> CoreName[k], label |-> Label(d, core[k])]

\* NodesOf under one try around the whole loop: after the first read that
\* raises, no later collection contributes
NodesOfOneTry(st, k, down) ==
    IF \E j \in 1..k : CoreName[j] \in down THEN <<>>
    ELSE With(get_documents(st, CoreName[k], NodeLimit), LAMBDA docs :
           Tuple([i \in DOMAIN docs |-> [id |-> PyStr(Get(docs[i], "_id")),
                                         type |-> CoreName[k],
                                         label |-> Get(docs[i], "name")]]))

\* the nodes collection core[k] contributes; none when its read raises
NodesOf(st, k, down) ==
    IF CoreName[k] \in down THEN <<>>
    ELSE With(get_documents(st, CoreName[k], NodeLimit), LAMBDA docs :
           Tuple([i \in DOMAIN docs |-> Node(docs[i], k)]))

RECURSIVE NodesUpTo(_, _, _)
NodesUpTo(st, k, down) ==
    IF k = 0 THEN <<>>
    ELSE NodesUpTo(st, k - 1, down) \o NodesOf(st, k, down)

\* if not src or not tgt: continue
EdgeSkipped(r) ==
    PyStr(Get(r, "source_id")) = "" \/ PyStr(Get(r, "target_id")) = ""

Edge(r) ==
    [source |-> PyStr(Get(r, "source_id")),
     target |-> PyStr(Get(r, "target_id")),
     kind   |-> GetOr(r, "kind", StrV("rel")),
     id     |-> PyStr(Get(r, "_id"))]

EdgesOf(st, down) ==
    IF RelationshipName \in down THEN <<>>
    ELSE With(SelectSeq(get_documents(st, RelationshipName, EdgeLimit),
                        LAMBDA r : ~EdgeSkipped(r)),
              LAMBDA kept : Tuple([i \in DOMAIN kept |-> Edge(kept[i])]))

\* the reads get_graph makes, in order
GraphReads == CoreName \o <<RelationshipName>>

\* get_graph(): `down` are the collections whose read raises
get_graph(st, down) ==
    Outcome(
      Response(200, [NoBody EXCEPT !.nodes = NodesUpTo(st, Len(core), down),
                                   !.edges = EdgesOf(st, down)]),
      st,
      Tuple([i \in DOMAIN GraphReads |->
                Call("find", GraphReads[i], GraphReads[i] \notin down)]))

(***************************************************************************)
(* src/main.py: liveness, diagnostics and introspection                    *)
(***************************************************************************)
read_root(st) == Outcome(Response(200, [NoBody EXCEPT !.info = <<"Ordne API", "ok">>]), st, <<>>)

hello(st) ==
    Outcome(Response(200, [NoBody EXCEPT !.info = <<"Hello from Ordne backend!">>]),
            st, <<>>)

SampleMax == 10

\* db.list_collection_names(): the collections that hold a record
NamesIn(st, names) == SelectSeq(names, LAMBDA c : st[c] # <<>>)

\* test_database(): dbUp is `db is not None`, listOk whether
\* list_collection_names() returns, urlSet and nameSet the environment;
\* `names` are the collection names in the order the store lists them
test_database(st, names, dbUp, listOk, urlSet, nameSet) ==
    With(NamesIn(st, names), LAMBDA found :
      Outcome(
         Response(200, [NoBody EXCEPT !.info =
            << IF ~dbUp THEN "Available but not initialized"
               ELSE IF listOk THEN "Connected & Working"
               ELSE "Connected but Error",
               IF urlSet THEN "Set" ELSE "Not Set",
               IF nameSet THEN "Set" ELSE "Not Set" >>
            \o (IF dbUp /\ listOk
                THEN SubSeq(found, 1, IF Len(found) < SampleMax THEN Len(found)
                                      ELSE SampleMax)
                ELSE <<>>)]),
         st, <<>>))

\* schema_summary(): per model its collection and its fields
schema_summary ==
    Tuple([i \in DOMAIN list_models |->
        [name |-> Join(list_models[i].name),
         collection |-> Join(Lower(list_models[i].name)),
         fields |-> Tuple([j \in DOMAIN list_models[i].fields |->
                        [name |-> list_models[i].fields[j].name,
                         required |-> list_models[i].fields[j].required,
                         default |-> list_models[i].fields[j].default]])]])

get_schema(st) ==
    Outcome(Response(200, [NoBody EXCEPT !.info = schema_summary]), st, <<>>)

list_collections(st) ==
    Outcome(Response(200, [NoBody EXCEPT !.info =
                Tuple([i \in DOMAIN list_models |-> Join(Lower(list_models[i].name))])]),
            st, <<>>)

(***************************************************************************)
(* Requests: the inputs the handlers are driven with                       *)
(***************************************************************************)
\* successful creates a behaviour may hold
MaxDocs == 2

\* limit: Optional[int] = 100
DefaultLimit == 100

doesnotexist == <<"d","o","e","s","n","o","t","e","x","i","s","t">>

\* route parameters that match no type: a prefix, an extension and a
\* substring of a type name, and an unrelated word
UnknownNames == { doesnotexist, <<"r","i","s">>, <<"r","i","s","k","s">>,
                  <<"i","s","k">> }

\* every type under its declared, lower-cased and upper-cased name
CaseVariants == UNION {{T, Lower(T), Upper(T)} : T \in TypeNames}

ResolveNames == CaseVariants \cup UnknownNames

StoreNames == {Join(c) : c \in ResolveNames} \cup {Join(Lower(c)) : c \in ResolveNames}

\* payloads of POST /documents/{collection}
RiskX ==
    ("title" :> StrV("X")) @@ ("likelihood" :> StrV("high"))
    @@ ("impact" :> StrV("low"))

BadEnum == ("title" :> StrV("X")) @@ ("likelihood" :> StrV("urgent"))

NegRetention ==
    ("name" :> StrV("Ledger")) @@ ("retention_period_months" :> IntV(-1))

\* an empty name, a bool given as 1 and a key no type declares
Lax == ("name" :> StrV("")) @@ ("gdpr_data" :> IntV(1)) @@ ("note" :> StrV("x"))

RelEmptySource ==
    ("source_id" :> StrV("")) @@ ("source_type" :> StrV("application"))
    @@ ("target_id" :> StrV("oid101")) @@ ("target_type" :> StrV("application"))
    @@ ("kind" :> StrV("uses"))

RelDangling ==
    ("source_id" :> StrV("ghost")) @@ ("source_type" :> StrV("role"))
    @@ ("target_id" :> StrV("oid101")) @@ ("target_type" :> StrV("application"))
    @@ ("kind" :> StrV("owns"))

\* the required fields of every type at once
AnyType ==
    ("name" :> StrV("N")) @@ ("title" :> StrV("T")) @@ RelDangling

(***************************************************************************)
(* The store when the process starts: empty, or holding records written    *)
(* earlier or by other writers                                             *)
(***************************************************************************)
RECURSIVE SeqOf(_)
SeqOf(S) == IF S = {} THEN <<>>
            ELSE LET x == CHOOSE y \in S : TRUE IN <<x>> \o SeqOf(S \ {x})

\* the collection names in the order the store lists them
StoreNameSeq == SeqOf(StoreNames)

EmptyStore == [c \in StoreNames |-> <<>>]

PopulatedStore ==
    [c \in StoreNames |->
      CASE c = "application" ->
             << ("_id" :> OidV(101)) @@ ("name" :> StrV("CRM")) >>
        [] c = "process" ->
             << ("_id" :> OidV(102)) >>
        [] c = "role" ->
             << ("_id" :> OidV(103)) @@ ("name" :> StrV(""))
                @@ ("title" :> StrV("Clerk")) >>
        [] c = "dataasset" ->
             << ("_id" :> OidV(104)) @@ ("name" :> StrV("Ledger"))
                @@ ("created_at" :> DateV(7)) >>
        [] c = "risk" ->
             << ("_id" :> OidV(105)) @@ ("title" :> StrV("Fire")) >>
        [] c = "relationship" ->
             << ("_id" :> OidV(201)) @@ ("source_id" :> StrV("oid101"))
                @@ ("target_id" :> StrV("oid105")) @@ ("kind" :> StrV("uses")),
                ("_id" :> OidV(202)) @@ ("target_id" :> StrV("oid101"))
                @@ ("kind" :> StrV("owns")),
                ("_id" :> OidV(203)) @@ ("source_id" :> StrV("oid101"))
                @@ ("target_id" :> StrV("")),
                ("_id" :> OidV(204)) @@ ("source_id" :> StrV("ghost"))
                @@ ("target_id" :> StrV("oid101")) >>
        [] OTHER -> <<>>]

InitStores == {EmptyStore, PopulatedStore}

NoRequest ==
    [op |-> "none", collection |-> <<>>, data |-> EmptyDoc, limit |-> 0,
     ok |-> TRUE, down |-> {}]

Init ==
    /\ store \in InitStores
    /\ nextId = 1
    /\ req = NoRequest
    /\ resp = Response(0, NoBody)
    /\ calls = <<>>
    /\ created = {}

(***************************************************************************)
(* One action per endpoint                                                 *)
(***************************************************************************)
\* a handler that only reads: its response and store calls are recorded
Reads(r, o) ==
    /\ req' = r
    /\ resp' = o.resp
    /\ calls' = o.calls
    /\ store' = o.store
    /\ UNCHANGED <<nextId, created>>

ReadRoot ==
    \E o \in {read_root(store)} : Reads([NoRequest EXCEPT !.op = "root"], o)

Hello ==
    \E o \in {hello(store)} : Reads([NoRequest EXCEPT !.op = "hello"], o)

TestDatabase ==
    \E dbUp \in BOOLEAN, listOk \in BOOLEAN, urlSet \in BOOLEAN, nameSet \in BOOLEAN :
      \E o \in {test_database(store, StoreNameSeq, dbUp, listOk, urlSet, nameSet)} :
        Reads([NoRequest EXCEPT !.op = "test", !.ok = dbUp /\ listOk], o)

GetSchema ==
    \E o \in {get_schema(store)} : Reads([NoRequest EXCEPT !.op = "schema"], o)

ListCollections ==
    \E o \in {list_collections(store)} :
        Reads([NoRequest EXCEPT !.op = "collections"], o)

GetCollectionDocuments(collection, limit, ok) ==
    \E o \in {get_collection_documents(store, collection, limit, ok)} :
        Reads([NoRequest EXCEPT !.op = "list", !.collection = collection,
                                !.limit = limit, !.ok = ok], o)

\* at most maxDocs creates succeed in a behaviour
CreateCollectionDocument(collection, data, ok, maxDocs) ==
    \E o \in {create_collection_document(store, nextId, collection, data, ok)} :
    /\ (o.store # store) => nextId <= maxDocs
    /\ req' = [NoRequest EXCEPT !.op = "create", !.collection = collection,
                                !.data = data, !.ok = ok]
    /\ resp' = o.resp
    /\ calls' = o.calls
    /\ store' = o.store
    /\ nextId' = IF o.store # store THEN nextId + 1 ELSE nextId
    /\ created' = IF o.resp.status = 200
                  THEN created \cup {[type |-> model_for_collection(collection).name,
                                      id |-> o.resp.id, data |-> data]}
                  ELSE created

GetGraph(down) ==
    \E o \in {get_graph(store, down)} :
        Reads([NoRequest EXCEPT !.op = "graph", !.down = down], o)

\* the endpoints, driven with the given route parameters, payloads, limits,
\* store outcomes and sets of unreadable collections
NextOver(names, payloads, limits, oks, downs, maxDocs) ==
    \/ ReadRoot
    \/ Hello
    \/ TestDatabase
    \/ GetSchema
    \/ ListCollections
    \/ \E c \in names, n \in limits, ok \in oks : GetCollectionDocuments(c, n, ok)
    \/ \E c \in names, d \in payloads, ok \in oks :
          CreateCollectionDocument(c, d, ok, maxDocs)
    \/ \E down \in downs : GetGraph(down)

\* create, list and graph over a few types, with the store failing or not
Names == {Risk, Lower(Risk), Lower(DataAsset), Lower(Application), doesnotexist}

Payloads == {RiskX, EmptyDoc, BadEnum, NegRetention, Lax}

Next ==
    NextOver(Names, Payloads, {1, DefaultLimit}, BOOLEAN, {{}, GraphCollections},
             MaxDocs)

Spec == Init /\ [][Next]_vars

\* successful creates a behaviour of SpecResolve may hold
MaxResolveDocs == 1

\* name resolution: every case variant of every type, and the unknown names
NextResolve ==
    NextOver(ResolveNames, {AnyType, EmptyDoc}, {DefaultLimit}, {TRUE}, {{}},
             MaxResolveDocs)

SpecResolve == Init /\ [][NextResolve]_vars

\* graph assembly: every subset of the six collections unreadable
NextGraph ==
    NextOver({Lower(Application), relationship}, {Lax, RelEmptySource},
             {DefaultLimit}, {TRUE}, SUBSET GraphCollections, MaxDocs)

SpecGraph == Init /\ [][NextGraph]_vars

(***************************************************************************)
(* Vocabulary of the properties                                            *)
(***************************************************************************)
\* the route parameter is a case variant of a declared type name
Registered(c) == \E T \in TypeNames : Lower(T) = Lower(c)

\* the declared type a registered route parameter names
TypeOf(c) == CHOOSE T \in TypeNames : Lower(T) = Lower(c)

\* the model declared under the name T
ModelNamed(T) == list_models[CHOOSE i \in DOMAIN list_models : list_models[i].name = T]

\* the store collection of type T: its lower-cased name
CollectionOfType(T) == Join(Lower(T))

IsDispatch == req.op \in {"list", "create"}

\* C1: every case variant of a registered type name resolves to that type,
\* and List and Create reach only the collection named by the lower-cased
\* type name; a Create that succeeds stores the fields of that type there.
C1_CaseInsensitiveResolution ==
    (IsDispatch /\ Registered(req.collection)) =>
        LET T == TypeOf(req.collection) IN
        /\ resp.status # 404
        /\ \A i \in DOMAIN calls : calls[i].coll = CollectionOfType(T)
        /\ (req.op = "list" /\ resp.status = 200) =>
               calls = <<Call("find", CollectionOfType(T), TRUE)>>
        /\ (req.op = "create" /\ resp.status = 200) =>
               /\ calls = <<Call("insert", CollectionOfType(T), TRUE)>>
               /\ \E i \in DOMAIN store[CollectionOfType(T)] :
                    LET d == store[CollectionOfType(T)][i] IN
                    /\ PyStr(d["_id"]) = resp.id
                    /\ DOMAIN d = FieldNames(ModelNamed(T)) \cup {"_id"}

C1_Witness ==
    /\ req.op = "create"
    /\ req.collection = Upper(Risk)
    /\ resp.status = 200
    /\ store["risk"] # <<>>

C2_UnknownState ==
    (IsDispatch /\ ~Registered(req.collection)) =>
        (resp.status = 404 /\ calls = <<>>)

C2_UnknownStep ==
    (req'.op \in {"list", "create"} /\ ~Registered(req'.collection)) =>
        store' = store

\* C2: a route parameter that is no case variant of a type name gets 404
\* from List and from Create, no store call is made and the store is as it
\* was; an invalid payload does not turn the 404 into a 422.
C2_UnknownIsNotFound == []C2_UnknownState /\ [][C2_UnknownStep]_vars

C2_Witness ==
    /\ req.op = "create"
    /\ req.collection = <<"r","i","s">>
    /\ req.data = EmptyDoc
    /\ resp.status = 404

\* the three kinds of invalid payload the claim names
MissingRequired(m, d) ==
    \E i \in DOMAIN m.fields : m.fields[i].required /\ m.fields[i].name \notin DOMAIN d

OutsideLiterals(m, d) ==
    \E i \in DOMAIN m.fields :
        /\ m.fields[i].lits # {}
        /\ m.fields[i].name \in DOMAIN d
        /\ d[m.fields[i].name].t = "str"
        /\ d[m.fields[i].name].s \notin m.fields[i].lits

NegativeRetention(m, d) ==
    /\ m.name = DataAsset
    /\ "retention_period_months" \in DOMAIN d
    /\ d["retention_period_months"].t = "int"
    /\ d["retention_period_months"].n < 0

C3_InvalidState ==
    (req.op = "create" /\ Registered(req.collection)) =>
        LET m == ModelNamed(TypeOf(req.collection)) IN
        (\/ MissingRequired(m, req.data)
         \/ OutsideLiterals(m, req.data)
         \/ NegativeRetention(m, req.data))
        => (resp.status = 422 /\ calls = <<>>)

C3_InvalidStep ==
    (req'.op = "create" /\ resp'.status = 422) => store' = store

\* C3: Create on a registered type with a required field missing, a literal
\* field outside its literals or a negative retention_period_months answers
\* 422, makes no store call and leaves the store as it was.
C3_InvalidPayloadRejected == []C3_InvalidState /\ [][C3_InvalidStep]_vars

C3_Witness ==
    /\ req.op = "create"
    /\ req.collection = Lower(DataAsset)
    /\ req.data = NegRetention
    /\ resp.status = 422
    /\ store["dataasset"] # <<>>

\* the created record c is among the items of the List response, each
\* field k of the set ks holding the value want[k]
ListedWith(c, ks, want) ==
    \E i \in DOMAIN resp.items :
        LET item == resp.items[i] IN
        /\ "_id" \in DOMAIN item
        /\ item["_id"] = StrV(c.id)
        /\ \A k \in ks : k \in DOMAIN item /\ item[k] = want[k]

\* a List of the collection of created record c answered with every record
ListsAllOf(c) ==
    /\ req.op = "list"
    /\ resp.status = 200
    /\ Registered(req.collection)
    /\ TypeOf(req.collection) = c.type
    /\ req.limit >= Len(store[CollectionOfType(c.type)])

\* a valid Create with the store reachable succeeds with one insert into the
\* type's collection and a non-empty identifier
CreateSucceeds ==
    (/\ req.op = "create"
     /\ Registered(req.collection)
     /\ ~Invalid(ModelNamed(TypeOf(req.collection)), req.data)
     /\ req.ok)
    => /\ resp.status = 200
       /\ resp.id # ""
       /\ calls = <<Call("insert", CollectionOfType(TypeOf(req.collection)), TRUE)>>

\* C4 as stated: a valid Create succeeds with one insert and a non-empty
\* identifier, and every later List of the collection that returns all of
\* it holds a record with that identifier and the submitted field values.
C4_ListedAsSubmitted ==
    /\ CreateSucceeds
    /\ \A c \in created : ListsAllOf(c) => ListedWith(c, DOMAIN c.data, c.data)

\* C4 as amended: the listed record holds, for every field the type
\* declares, the validated value (the submitted value as coerced, or the
\* default), and no field the type does not declare.
C4_ListedAsValidated ==
    /\ CreateSucceeds
    /\ \A c \in created :
         ListsAllOf(c) =>
           LET m == ModelNamed(c.type) IN
           /\ ListedWith(c, FieldNames(m), Validated(m, c.data))
           /\ \A i \in DOMAIN resp.items :
                resp.items[i]["_id"] = StrV(c.id) =>
                    DOMAIN resp.items[i] = FieldNames(m) \cup {"_id"}

C4_Witness ==
    /\ req.op = "list"
    /\ req.collection = Risk
    /\ resp.status = 200
    /\ Len(resp.items) >= 2
    /\ \E c \in created : c.type = Risk /\ ListsAllOf(c)
    /\ \E c \in created : c.data = Lax

\* a relationship record without a source_id or target_id, or with an
\* empty one
LacksEndpoint(r) ==
    \E k \in {"source_id", "target_id"} : k \notin DOMAIN r \/ r[k] = StrV("")

\* C5: no relationship record that lacks a source_id or target_id, or holds
\* an empty one, has an edge in the output of GET /graph.
C5_NoEdgeWithoutEndpoints ==
    (req.op = "graph" /\ RelationshipName \notin req.down) =>
        \A i \in DOMAIN store[RelationshipName] :
            LET r == store[RelationshipName][i] IN
            LacksEndpoint(r) =>
                \A j \in DOMAIN resp.edges : resp.edges[j].id # PyStr(r["_id"])

\* C6: a List of a registered collection whose find fails answers with an
\* empty item list, never with an error.
C6_ListDegrades ==
    (req.op = "list" /\ Registered(req.collection) /\ ~req.ok) =>
        (resp.status = 200 /\ resp.items = <<>>)

\* the nodes of the response that carry type name
NodesOfType(name) == SelectSeq(resp.nodes, LAMBDA n : n.type = name)

\* C7: whatever subset of the six collections cannot be read, GET /graph
\* answers 200 with one node per record of every readable node collection,
\* none for an unreadable one, and no edge when the relationship collection
\* is unreadable or empty.
C7_GraphNeverFails ==
    req.op = "graph" =>
        /\ resp.status = 200
        /\ \A k \in DOMAIN core :
             LET name == Join(core[k])
                 got == NodesOfType(name)
             IN IF name \in req.down THEN got = <<>>
                ELSE /\ Len(got) = IF Len(store[name]) < NodeLimit
                                   THEN Len(store[name]) ELSE NodeLimit
                     /\ \A i \in DOMAIN got : got[i].id = PyStr(store[name][i]["_id"])
        /\ (RelationshipName \in req.down \/ store[RelationshipName] = <<>>)
               => resp.edges = <<>>

C7_Witness ==
    /\ req.op = "graph"
    /\ req.down = {"process", "risk", "relationship"}
    /\ Len(resp.nodes) >= 3
    /\ store["risk"] # <<>>
    /\ store["relationship"] # <<>>

C8_FailedState ==
    (/\ req.op = "create"
     /\ Registered(req.collection)
     /\ ~Invalid(ModelNamed(TypeOf(req.collection)), req.data)
     /\ ~req.ok)
    => /\ resp.status >= 500
       /\ resp.id = ""
       /\ calls = <<Call("insert", CollectionOfType(TypeOf(req.collection)), FALSE)>>

C8_FailedStep == (req'.op = "create" /\ ~req'.ok) => store' = store

\* C8: a Create whose insert fails answers with a server error, never with
\* an identifier, a 404 or a 422; the insert is attempted once and the
\* store is as it was.
C8_InsertFailurePropagates == []C8_FailedState /\ [][C8_FailedStep]_vars

C8_Witness ==
    /\ req.op = "create"
    /\ req.data = RiskX
    /\ ~req.ok
    /\ resp.status = 500
    /\ calls # <<>>

\* the collections of the registered types
TypeCollections == {CollectionOfType(T) : T \in TypeNames}

C9_StoreStep ==
    store' # store =>
        /\ req'.op = "create"
        /\ resp'.status = 200
        /\ \E c \in TypeCollections :
             /\ Len(store'[c]) = Len(store[c]) + 1
             /\ SubSeq(store'[c], 1, Len(store[c])) = store[c]
             /\ \A d \in DOMAIN store : d # c => store'[d] = store[d]

\* C9: the store changes only by a Create that succeeds, which appends one
\* record to one collection of a registered type; every record held before
\* is held after, unchanged and in place.
C9_AppendOnly == [][C9_StoreStep]_vars

C9_Witness ==
    /\ req.op = "create"
    /\ resp.status = 200
    /\ Len(store["risk"]) = 2
    /\ store["risk"][1]["_id"] = OidV(105)

\* the capitalized names of the core collections
CapitalizedName == <<"Application", "Process", "Role", "Dataasset", "Risk">>

\* field k of record d is there
Present(d, k) == k \in DOMAIN d

\* field k of record d is there and is neither None nor the empty string
NonEmpty(d, k) == k \in DOMAIN d /\ d[k] \notin {NoneV, StrV("")}

\* every record of every readable node collection has one node, in order,
\* with the stringified identifier, the collection as type and the label
\* chosen by Has: name if Has, else title if Has, else the capitalized
\* name; Has is NonEmpty when nonEmpty is TRUE and Present otherwise
NodesLabelled(nonEmpty) ==
    LET Has(d, f) == IF nonEmpty THEN NonEmpty(d, f) ELSE Present(d, f) IN
    \A k \in DOMAIN core :
        CoreName[k] \notin req.down =>
            LET got == NodesOfType(CoreName[k])
                docs == store[CoreName[k]]
            IN /\ Len(got) = Len(docs)
               /\ \A i \in DOMAIN got :
                    /\ got[i].id = PyStr(docs[i]["_id"])
                    /\ got[i].label =
                         IF Has(docs[i], "name") THEN docs[i]["name"]
                         ELSE IF Has(docs[i], "title") THEN docs[i]["title"]
                         ELSE StrV(CapitalizedName[k])

\* every relationship record with two non-empty endpoints has its edge,
\* whether or not the endpoints are identifiers of nodes
EdgesUnchecked ==
    RelationshipName \notin req.down =>
        \A i \in DOMAIN store[RelationshipName] :
            LET r == store[RelationshipName][i] IN
            (NonEmpty(r, "source_id") /\ NonEmpty(r, "target_id")) =>
                \E j \in DOMAIN resp.edges :
                    /\ resp.edges[j].id = PyStr(r["_id"])
                    /\ resp.edges[j].source = PyStr(r["source_id"])
                    /\ resp.edges[j].target = PyStr(r["target_id"])

\* C10 as stated: the label is the name if the record has one, else the
\* title if it has one, else the capitalized collection name.
C10_LabelIfPresent ==
    req.op = "graph" => (NodesLabelled(FALSE) /\ EdgesUnchecked)

\* C10 as amended: the label is the name if the record has a non-empty one,
\* else the title if it has a non-empty one, else the capitalized
\* collection name.
C10_LabelIfNonEmpty ==
    req.op = "graph" => (NodesLabelled(TRUE) /\ EdgesUnchecked)

C10_Witness ==
    /\ req.op = "graph"
    /\ req.down = {}
    /\ \E i \in DOMAIN resp.nodes :
         resp.nodes[i].type = "application" /\ resp.nodes[i].label = StrV("Application")
    /\ \E i \in DOMAIN resp.nodes : resp.nodes[i].label = StrV("Clerk")
    /\ \E j \in DOMAIN resp.edges :
         \A i \in DOMAIN resp.nodes : resp.nodes[i].id # resp.edges[j].source

====
